---- MODULE Spec2Model ----
(***************************************************************************)
(* mongotop: the poll loop (MongoTop.Run), the three samplers              *)
(* (runTopDiff, runServerStatusDiff, runOperationMetricsDiff), the three   *)
(* Diff operations and the row cells written by TopDiff.Grid.              *)
(*                                                                         *)
(* Time is counted in milliseconds (time.Duration counts nanoseconds; the  *)
(* two divisors 1e6 and 1e9 of Grid become 1 and 1000).  A float64 is      *)
(* modelled as an exact fraction or one of +Inf, -Inf, NaN.                *)
(***************************************************************************)
EXTENDS Integers, Sequences, FiniteSets, TLC

(* ----------------------------- bounds --------------------------------- *)
\* largest --rowcount tried
MaxRowCount == 2
\* sample attempts allowed beyond MaxRowCount (caps the unbounded loop)
MaxExtraAttempts == 1

AttemptCap == MaxRowCount + MaxExtraAttempts

(* ------------------------- values and inputs -------------------------- *)
\* a nil pointer / nil interface
Nil == [kind |-> "nil"]
\* a nil error
NoErr == "nil"

\* entity keys: namespaces, and database names
Namespaces == {"a", "b"}
Databases == {"a", "b", "c"}

\* polling intervals tried, in ms
Sleeptimes == {500, 1000}
\* --listcount values tried
ListCounts == {0, 1}
\* core counts tried
CoreCounts == {2}

TopField(t, c) == [Time |-> t, Count |-> c]
NSTopInfo(tot, rd, wr) == [Total |-> tot, Read |-> rd, Write |-> wr]

\* per-namespace counters a server may report (time in microseconds)
TopInfos ==
  { NSTopInfo(TopField(1000, 10), TopField(0, 0),    TopField(1000, 10)),
    NSTopInfo(TopField(3000, 15), TopField(1500, 3), TopField(1500, 12)),
    NSTopInfo(TopField(4500, 15), TopField(2200, 3), TopField(2300, 12)),
    NSTopInfo(TopField(500, 2),   TopField(100, 1),  TopField(400, 1)) }

ReadWriteLockTimes(R, W, r, w) ==
  [Read |-> R, Write |-> W, ReadLower |-> r, WriteLower |-> w]
LockStats(acq, locked) ==
  [AcquireCount |-> acq, TimeLockedMicros |-> locked,
   TimeAcquiringMicros |-> ReadWriteLockTimes(0, 0, 0, 0)]

\* per-database lock statistics a server may report
LockInfos ==
  { LockStats(Nil, ReadWriteLockTimes(1000, 2000, 500, 0)),
    LockStats(Nil, ReadWriteLockTimes(4000, 2500, 700, 1900)),
    LockStats(Nil, ReadWriteLockTimes(100, 0, 0, 300)) }
\* an entry of a server that reports acquire counts
AcquireCountInfo ==
  LockStats([kind |-> "ReadWriteLockTimes"] , ReadWriteLockTimes(0, 0, 0, 0))

OperationMetricsMemberInfo(v) ==
  [DocBytesRead |-> 8 * v, DocUnitsRead |-> v, IndexEntryBytesRead |-> 3 * v,
   IndexEntryUnitsRead |-> 2 * v, KeysSorted |-> 5 * v, SorterSpills |-> 7 * v,
   DocUnitsReturned |-> 4 * v, CursorSeeks |-> 6 * v]
OperationMetricsEntry(db, p, s, w, cpu) ==
  [DBName |-> db,
   PrimaryMetrics |-> OperationMetricsMemberInfo(p),
   SecondaryMetrics |-> OperationMetricsMemberInfo(s),
   DocBytesWritten |-> 9 * w, DocUnitsWritten |-> w,
   IndexEntryBytesWritten |-> 11 * w, IndexEntryUnitsWritten |-> 10 * w,
   CpuNanos |-> cpu]

\* the counters of one $operationMetrics record a server may report
OperationMetricsInfos ==
  { <<1, 0, 100, 50>>, <<3, 2, 160, 20>>, <<0, 1, 40, 90>> }

\* all maps from a subset of keys into S
MapsInto(keys, S) == UNION { [ks -> S] : ks \in SUBSET keys }

(* --------------------------- arithmetic ------------------------------- *)
Abs(x) == IF x < 0 THEN -x ELSE x

\* integer division rounding toward minus infinity
FloorDiv(a, b) == a \div b

\* Go's integer division a / b for b > 0: the quotient truncates toward zero
GoDiv(a, b) == IF a >= 0 THEN a \div b ELSE -((-a) \div b)

(* ----------------------------- Top.Diff ------------------------------- *)
\* a count delta clamped at zero
ClampedTopFieldDiff(cur, prev) ==
  [Time  |-> GoDiv(cur.Time - prev.Time, 1000),
   Count |-> IF cur.Count < prev.Count THEN 0 ELSE cur.Count - prev.Count]

\* one TopField of a diff entry
TopFieldDiff(cur, prev) ==
  [Time  |-> GoDiv(cur.Time - prev.Time, 1000),
   Count |-> cur.Count - prev.Count]

\* a namespace missing from the current sample counted as zero
OuterTopTotalsDiff(curTotals, prevTotals) ==
  LET zero == NSTopInfo(TopField(0, 0), TopField(0, 0), TopField(0, 0))
      at(ns) == IF ns \in DOMAIN curTotals THEN curTotals[ns] ELSE zero
  IN [ns \in DOMAIN prevTotals |->
        [Total |-> TopFieldDiff(at(ns).Total, prevTotals[ns].Total),
         Read  |-> TopFieldDiff(at(ns).Read,  prevTotals[ns].Read),
         Write |-> TopFieldDiff(at(ns).Write, prevTotals[ns].Write)]]

\* the loop of Top.Diff: one entry per namespace of previous found in current
TopTotalsDiff(curTotals, prevTotals) ==
  [ns \in {k \in DOMAIN prevTotals : k \in DOMAIN curTotals} |->
     [Total |-> TopFieldDiff(curTotals[ns].Total, prevTotals[ns].Total),
      Read  |-> TopFieldDiff(curTotals[ns].Read,  prevTotals[ns].Read),
      Write |-> TopFieldDiff(curTotals[ns].Write, prevTotals[ns].Write)]]

\* Top.Diff; clock is the reading of time.Now()
Top_Diff(top, previous, listCount, sortLatency, clock) ==
  [kind        |-> "TopDiff",
   numCores    |-> previous.numCores,
   elapsed     |-> top.time - previous.time,
   currentTop  |-> top,
   listCount   |-> listCount,
   sortLatency |-> sortLatency,
   Totals      |-> TopTotalsDiff(top.Totals, previous.Totals),
   Time        |-> clock]

(* ------------------------- ServerStatus.Diff -------------------------- *)
\* lock deltas taken from the Read and Write times alone
LockTotalsDiffUpperOnly(curLocks, prevLocks) ==
  [ns \in {k \in DOMAIN prevLocks : k \in DOMAIN curLocks} |->
     [Read  |-> GoDiv(curLocks[ns].TimeLockedMicros.Read
                      - prevLocks[ns].TimeLockedMicros.Read, 1000),
      Write |-> GoDiv(curLocks[ns].TimeLockedMicros.Write
                      - prevLocks[ns].TimeLockedMicros.Write, 1000)]]

\* the loop of ServerStatus.Diff
LockTotalsDiff(curLocks, prevLocks) ==
  [ns \in {k \in DOMAIN prevLocks : k \in DOMAIN curLocks} |->
     LET prevTimeLocked == prevLocks[ns].TimeLockedMicros
         curTimeLocked  == curLocks[ns].TimeLockedMicros
     IN [Read  |-> GoDiv(curTimeLocked.Read + curTimeLocked.ReadLower
                         - (prevTimeLocked.Read + prevTimeLocked.ReadLower), 1000),
         Write |-> GoDiv(curTimeLocked.Write + curTimeLocked.WriteLower
                         - (prevTimeLocked.Write + prevTimeLocked.WriteLower), 1000)]]

ServerStatus_Diff(ss, previous, listCount, clock) ==
  [kind                |-> "ServerStatusDiff",
   currentServerStatus |-> ss,
   listCount           |-> listCount,
   Totals              |-> LockTotalsDiff(ss.Locks, previous.Locks),
   Time                |-> clock]

(* ----------------------- OperationMetrics.Diff ------------------------ *)
OperationMetricsMemberInfoDelta(cur, prev) ==
  [DocBytesRead        |-> cur.DocBytesRead - prev.DocBytesRead,
   DocUnitsRead        |-> cur.DocUnitsRead - prev.DocUnitsRead,
   IndexEntryBytesRead |-> cur.IndexEntryBytesRead - prev.IndexEntryBytesRead,
   IndexEntryUnitsRead |-> cur.IndexEntryUnitsRead - prev.IndexEntryUnitsRead,
   KeysSorted          |-> cur.KeysSorted - prev.KeysSorted,
   SorterSpills        |-> cur.SorterSpills - prev.SorterSpills,
   DocUnitsReturned    |-> cur.DocUnitsReturned - prev.DocUnitsReturned,
   CursorSeeks         |-> cur.CursorSeeks - prev.CursorSeeks]

OperationMetricsEntryDelta(curInfo, prevInfo) ==
  [PrimaryMetrics   |->
     OperationMetricsMemberInfoDelta(curInfo.PrimaryMetrics, prevInfo.PrimaryMetrics),
   SecondaryMetrics |->
     OperationMetricsMemberInfoDelta(curInfo.SecondaryMetrics, prevInfo.SecondaryMetrics),
   DocBytesWritten        |-> curInfo.DocBytesWritten - prevInfo.DocBytesWritten,
   DocUnitsWritten        |-> curInfo.DocUnitsWritten - prevInfo.DocUnitsWritten,
   IndexEntryBytesWritten |-> curInfo.IndexEntryBytesWritten - prevInfo.IndexEntryBytesWritten,
   IndexEntryUnitsWritten |-> curInfo.IndexEntryUnitsWritten - prevInfo.IndexEntryUnitsWritten,
   CpuNanos               |-> curInfo.CpuNanos - prevInfo.CpuNanos]

\* the loop of OperationMetrics.Diff
OperationMetricsTotalsDiff(curEntries, prevEntries) ==
  [ns \in {k \in DOMAIN prevEntries : k \in DOMAIN curEntries} |->
     OperationMetricsEntryDelta(curEntries[ns], prevEntries[ns])]

OperationMetrics_Diff(metrics, previous, listCount, sortTotal, clock) ==
  [kind             |-> "OperationMetricsDiff",
   numCores         |-> previous.numCores,
   elapsed          |-> metrics.time - previous.time,
   currentOperation |-> metrics,
   listCount        |-> listCount,
   sortTotal        |-> sortTotal,
   Totals           |-> OperationMetricsTotalsDiff(metrics.Entries, previous.Entries),
   Time             |-> clock]

(* --------------------------- server replies --------------------------- *)
\* the "totals" document of a "top" reply: namespaces, and possibly "note"
WithNote(totals) ==
  [k \in DOMAIN totals \cup {"note"} |->
     IF k = "note" THEN "all times in microseconds" ELSE totals[k]]

\* totals.Document().Delete("note"), re-marshalled and decoded
DeleteNote(totals) == [k \in DOMAIN totals \ {"note"} |-> totals[k]]

InfoA == NSTopInfo(TopField(1000, 10), TopField(0, 0), TopField(1000, 10))
InfoB == NSTopInfo(TopField(3000, 15), TopField(1500, 3), TopField(1500, 12))

\* replies to "top": the command fails, the reply has no "totals", the
\* totals do not decode into map[string]NSTopInfo, or the totals decode
RunTopReplies ==
  { [kind |-> "cmdErr",      totals |-> <<>>],
    [kind |-> "noTotals",    totals |-> <<>>],
    [kind |-> "undecodable", totals |-> <<>>],
    [kind |-> "ok", totals |-> WithNote([k \in {"a", "b"} |-> InfoA])],
    [kind |-> "ok", totals |-> [k \in {"a"} |-> InfoB]] }

LockA == LockStats(Nil, ReadWriteLockTimes(1000, 2000, 500, 0))
LockB == LockStats(Nil, ReadWriteLockTimes(4000, 2500, 700, 1900))

\* replies to "serverStatus": the command fails, the reply has no locks,
\* an entry carries acquireCount, or the locks are usable
RunServerStatusReplies ==
  { [kind |-> "cmdErr", Locks |-> Nil],
    [kind |-> "ok",     Locks |-> Nil],
    [kind |-> "ok",     Locks |-> [k \in {"a", "b"} |->
                                     IF k = "a" THEN LockA ELSE AcquireCountInfo]],
    [kind |-> "ok",     Locks |-> [k \in {"a", "b"} |-> LockA]],
    [kind |-> "ok",     Locks |-> [k \in {"b"} |-> LockB]] }

Record(db, i) == [ok |-> TRUE, entry |-> OperationMetricsEntry(db, i[1], i[2], i[3], i[4])]
BadRecord == [ok |-> FALSE, entry |-> Nil]

\* replies to the $operationMetrics aggregation: Aggregate fails, or the
\* cursor yields records (some of which may not decode) and then ends,
\* possibly with a read error
RunOperationMetricsReplies ==
  { [kind |-> "cmdErr", records |-> <<>>, cursorErr |-> FALSE],
    [kind |-> "ok", records |-> <<Record("a", <<1, 0, 100, 50>>), BadRecord>>,
                    cursorErr |-> FALSE],
    [kind |-> "ok", records |-> <<Record("a", <<1, 0, 100, 50>>)>>,
                    cursorErr |-> TRUE],
    [kind |-> "ok", records |-> <<Record("a", <<1, 0, 100, 50>>),
                                  Record("b", <<0, 1, 40, 90>>)>>,
                    cursorErr |-> FALSE],
    [kind |-> "ok", records |-> <<Record("b", <<3, 2, 160, 20>>),
                                  Record("b", <<3, 2, 160, 20>>)>>,
                    cursorErr |-> FALSE] }

(* ------------------------------ samplers ------------------------------ *)
\* the result of a sampler: the returned pair and the new previous sample
Sampled(outDiff, e, previous) == [outDiff |-> outDiff, err |-> e, previous |-> previous]

\* a sampler that keeps the first sample as the previous one for good
runTopDiffKeepingFirst(previousTop, reply, clock, listCount, sortLatency, numCores) ==
  IF reply.kind = "cmdErr" THEN Sampled(Nil, "cmdErr", Nil)
  ELSE IF reply.kind = "noTotals" THEN Sampled(Nil, "noTotals", previousTop)
  ELSE IF reply.kind = "undecodable" THEN Sampled(Nil, "undecodable", previousTop)
  ELSE LET currentTop == [kind |-> "Top", numCores |-> numCores, time |-> clock,
                          Totals |-> DeleteNote(reply.totals)]
       IN IF previousTop.kind # "nil"
            THEN Sampled(Top_Diff(currentTop, previousTop, listCount, sortLatency, clock),
                         NoErr, previousTop)
            ELSE Sampled(Nil, NoErr, currentTop)

\* runTopDiff
runTopDiff(previousTop, reply, clock, listCount, sortLatency, numCores) ==
  IF reply.kind = "cmdErr" THEN Sampled(Nil, "cmdErr", Nil)
  ELSE IF reply.kind = "noTotals" THEN Sampled(Nil, "noTotals", previousTop)
  ELSE IF reply.kind = "undecodable" THEN Sampled(Nil, "undecodable", previousTop)
  ELSE LET currentTop == [kind |-> "Top", numCores |-> numCores, time |-> clock,
                          Totals |-> DeleteNote(reply.totals)]
       IN Sampled(IF previousTop.kind # "nil"
                    THEN Top_Diff(currentTop, previousTop, listCount, sortLatency, clock)
                    ELSE Nil,
                  NoErr, currentTop)

\* a sampler that keeps the snapshot it rejects
runServerStatusDiffStoring(previousServerStatus, reply, clock, listCount) ==
  LET currentServerStatus == [kind |-> "ServerStatus", time |-> clock,
                              Locks |-> reply.Locks]
  IN IF reply.kind = "cmdErr" THEN Sampled(Nil, "cmdErr", Nil)
     ELSE IF reply.Locks = Nil THEN Sampled(Nil, "noLocks", currentServerStatus)
     ELSE IF \E ns \in DOMAIN reply.Locks : reply.Locks[ns].AcquireCount # Nil
       THEN Sampled(Nil, "acquireCount", currentServerStatus)
     ELSE Sampled(IF previousServerStatus.kind # "nil"
                    THEN ServerStatus_Diff(currentServerStatus, previousServerStatus,
                                           listCount, clock)
                    ELSE Nil,
                  NoErr, currentServerStatus)

\* runServerStatusDiff
runServerStatusDiff(previousServerStatus, reply, clock, listCount) ==
  IF reply.kind = "cmdErr" THEN Sampled(Nil, "cmdErr", Nil)
  ELSE IF reply.Locks = Nil THEN Sampled(Nil, "noLocks", previousServerStatus)
  ELSE IF \E ns \in DOMAIN reply.Locks : reply.Locks[ns].AcquireCount # Nil
    THEN Sampled(Nil, "acquireCount", previousServerStatus)
  ELSE LET currentServerStatus == [kind |-> "ServerStatus", time |-> clock,
                                   Locks |-> reply.Locks]
       IN Sampled(IF previousServerStatus.kind # "nil"
                    THEN ServerStatus_Diff(currentServerStatus, previousServerStatus,
                                           listCount, clock)
                    ELSE Nil,
                  NoErr, currentServerStatus)

\* the cursor loop of runOperationMetricsDiff: Entries[entry.DBName] = entry
\* for each record, stopping at the first record that does not decode
RECURSIVE DecodeEntries(_, _)
DecodeEntries(records, entries) ==
  IF records = <<>> THEN [ok |-> TRUE, Entries |-> entries]
  ELSE IF ~Head(records).ok THEN [ok |-> FALSE, Entries |-> entries]
  ELSE LET entry == Head(records).entry
       IN DecodeEntries(Tail(records),
            [k \in DOMAIN entries \cup {entry.DBName} |->
               IF k = entry.DBName THEN entry ELSE entries[k]])

\* a sampler that keeps the partly filled snapshot of a failed cursor loop
runOperationMetricsDiffStoring(previousOperationMetrics, reply, clock, listCount, sortLatency, numCores) ==
  IF reply.kind = "cmdErr" THEN Sampled(Nil, "cmdErr", Nil)
  ELSE LET decoded == DecodeEntries(reply.records, <<>>)
           currentOperationMetrics ==
             [kind |-> "OperationMetrics", numCores |-> numCores, time |-> clock,
              Entries |-> decoded.Entries]
       IN IF ~decoded.ok THEN Sampled(Nil, "decode", currentOperationMetrics)
          ELSE IF reply.cursorErr THEN Sampled(Nil, "cursor", currentOperationMetrics)
          ELSE Sampled(IF previousOperationMetrics.kind # "nil"
                         THEN OperationMetrics_Diff(currentOperationMetrics,
                                previousOperationMetrics, listCount, sortLatency, clock)
                         ELSE Nil,
                       NoErr, currentOperationMetrics)

\* runOperationMetricsDiff
runOperationMetricsDiff(previousOperationMetrics, reply, clock, listCount, sortLatency, numCores) ==
  IF reply.kind = "cmdErr" THEN Sampled(Nil, "cmdErr", Nil)
  ELSE LET decoded == DecodeEntries(reply.records, <<>>)
           currentOperationMetrics ==
             [kind |-> "OperationMetrics", numCores |-> numCores, time |-> clock,
              Entries |-> decoded.Entries]
       IN IF ~decoded.ok THEN Sampled(Nil, "decode", previousOperationMetrics)
          ELSE IF reply.cursorErr THEN Sampled(Nil, "cursor", previousOperationMetrics)
          ELSE Sampled(IF previousOperationMetrics.kind # "nil"
                         THEN OperationMetrics_Diff(currentOperationMetrics,
                                previousOperationMetrics, listCount, sortLatency, clock)
                         ELSE Nil,
                       NoErr, currentOperationMetrics)

(* ------------------------------ rendering ----------------------------- *)
\* TopDiff.JSON and ServerStatusDiff.JSON: json.Marshal of the exported fields
Diff_JSON(d) == [totals |-> d.Totals, time |-> d.Time]

\* an OperationMetricsDiff marshalled as the other diffs are
OperationMetricsDiff_JSONMarshalled(od) == Diff_JSON(od)

\* OperationMetricsDiff.JSON
OperationMetricsDiff_JSON(od) == [unsupported |-> TRUE]

\* the argument of fmt.Println in Run
Printed(d, json) ==
  IF json
    THEN [format |-> "json",
          doc |-> IF d.kind = "OperationMetricsDiff"
                    THEN OperationMetricsDiff_JSON(d) ELSE Diff_JSON(d)]
    ELSE [format |-> "grid", doc |-> d]

(* ------------------------------ float64 ------------------------------- *)
\* a float64: the fraction n/d with d > 0, or +Inf, -Inf, NaN.  The integers
\* of the model are far below 2^53, so int-to-float conversion is exact.
Fin(n, d) == [k |-> "fin", n |-> n, d |-> d]
PosInf == [k |-> "+Inf", n |-> 0, d |-> 1]
NegInf == [k |-> "-Inf", n |-> 0, d |-> 1]
NaN    == [k |-> "NaN",  n |-> 0, d |-> 1]

\* float64(i)
Float(i) == Fin(i, 1)

FNeg(x) == IF x.k = "+Inf" THEN NegInf ELSE IF x.k = "-Inf" THEN PosInf
           ELSE IF x.k = "NaN" THEN NaN ELSE Fin(-x.n, x.d)

\* x / y in IEEE 754 (the sign of a zero is not kept: a zero divisor is +0)
FDiv(x, y) ==
  IF x.k = "NaN" \/ y.k = "NaN" THEN NaN
  ELSE IF y.k # "fin" THEN (IF x.k = "fin" THEN Fin(0, 1) ELSE NaN)
  ELSE IF y.n = 0
    THEN (IF x.k # "fin" THEN x
          ELSE IF x.n > 0 THEN PosInf ELSE IF x.n < 0 THEN NegInf ELSE NaN)
  ELSE IF x.k # "fin" THEN (IF y.n > 0 THEN x ELSE FNeg(x))
  ELSE IF y.n > 0 THEN Fin(x.n * y.d, x.d * y.n)
  ELSE Fin(-(x.n * y.d), x.d * (-y.n))

\* x * i for an integer i > 0
FScale(x, i) == IF x.k = "fin" THEN Fin(x.n * i, x.d) ELSE x

\* a/b for b > 0 rounded to the nearest integer, ties to even
RoundHalfEven(a, b) ==
  LET q == a \div b
      r == a - q * b
  IN IF 2 * r < b THEN q
     ELSE IF 2 * r > b THEN q + 1
     ELSE IF q % 2 = 0 THEN q ELSE q + 1

\* fmt.Sprintf("%0.1f", x) for scale = 10 and "%0.2f" for scale = 100:
\* the decimal n/scale, or the text +Inf, -Inf, NaN
Sprintf(x, scale) ==
  IF x.k = "fin" THEN Fin(RoundHalfEven(x.n * scale, x.d), scale) ELSE x

(* ---------------------------- TopDiff.Grid ---------------------------- *)
\* float64(int64(td.elapsed) / 1e6): whole milliseconds
ElapsedMillis(elapsed) == Float(elapsed)

\* the elapsed time in seconds with its fraction kept
ExactSeconds(elapsed) == Fin(elapsed, 1000)

\* float64(int64(td.elapsed) / 1e9): the integer division drops the fraction
ElapsedSeconds(elapsed) == Float(GoDiv(elapsed, 1000))

\* the cells TopDiff.Grid writes for the namespace ns
TopDiffRow(td, ns) ==
  LET d == td.Totals[ns]
      elapsedMillis  == ElapsedMillis(td.elapsed)
      elapsedSeconds == ElapsedSeconds(td.elapsed)
      pct(t)    == FScale(FDiv(Float(t), elapsedMillis), 100)
      timeOp(f) == Sprintf(FDiv(Float(f.Time), Float(f.Count)), 10)
      ops(f)    == Sprintf(FDiv(Float(f.Count), elapsedSeconds), 10)
  IN [ns           |-> ns,
      total        |-> d.Total.Time,
      totalPct     |-> Sprintf(pct(d.Total.Time), 10),
      totalPctCore |-> Sprintf(FDiv(pct(d.Total.Time), Float(td.numCores)), 100),
      totalTimeOp  |-> timeOp(d.Total),
      totalOps     |-> ops(d.Total),
      read         |-> d.Read.Time,
      readPct      |-> Sprintf(pct(d.Read.Time), 10),
      readTimeOp   |-> timeOp(d.Read),
      readOps      |-> ops(d.Read),
      write        |-> d.Write.Time,
      writePct     |-> Sprintf(pct(d.Write.Time), 10),
      writeTimeOp  |-> timeOp(d.Write),
      writeOps     |-> ops(d.Write)]

(* ----------------------- ranking and truncation ----------------------- *)
\* the keys in byte order, as Go compares strings
KeyOrder == <<"a", "b", "c", "d", "e", "f", "g", "h", "i", "j">>
KeyIndex(name) == CHOOSE i \in DOMAIN KeyOrder : KeyOrder[i] = name

\* a[i].Name < a[j].Name
NameSmaller(x, y) == KeyIndex(x) < KeyIndex(y)

\* a[i].Name > a[j].Name
NameGreater(x, y) == KeyIndex(x) > KeyIndex(y)

\* math.IsNaN
IsNaN(x) == x.k = "NaN"

\* x == y on float64: false when either is NaN
FEq(x, y) ==
  /\ ~IsNaN(x) /\ ~IsNaN(y)
  /\ x.k = y.k
  /\ x.k = "fin" => x.n * y.d = y.n * x.d

\* x < y on float64: false when either is NaN
FLt(x, y) ==
  /\ ~IsNaN(x) /\ ~IsNaN(y)
  /\ \/ x.k = "-Inf" /\ y.k # "-Inf"
     \/ x.k # "+Inf" /\ y.k = "+Inf"
     \/ x.k = "fin" /\ y.k = "fin" /\ x.n * y.d < y.n * x.d

sortableTotal(name, total, current) ==
  [Name |-> name, Total |-> total, Current |-> current]

\* a comparison that puts NaN above every number
LessNaNGreatest(x, y) ==
  IF ~IsNaN(x.Total) /\ IsNaN(y.Total) THEN TRUE
  ELSE IF IsNaN(x.Total) /\ ~IsNaN(y.Total) THEN FALSE
  ELSE IF IsNaN(x.Total) \/ IsNaN(y.Total) THEN TRUE
  ELSE IF FEq(x.Total, y.Total)
    THEN (IF x.Current = y.Current THEN NameGreater(x.Name, y.Name)
          ELSE x.Current < y.Current)
  ELSE FLt(x.Total, y.Total)

\* a comparison whose tie-break prefers the smaller current value
LessCurrentInverted(x, y) ==
  IF ~IsNaN(x.Total) /\ IsNaN(y.Total) THEN FALSE
  ELSE IF IsNaN(x.Total) /\ ~IsNaN(y.Total) THEN TRUE
  ELSE IF IsNaN(x.Total) \/ IsNaN(y.Total) THEN TRUE
  ELSE IF FEq(x.Total, y.Total)
    THEN (IF x.Current = y.Current THEN NameGreater(x.Name, y.Name)
          ELSE x.Current > y.Current)
  ELSE FLt(x.Total, y.Total)

\* sortableTotals.Less on the entries x = a[i] and y = a[j]
Less(x, y) ==
  IF ~IsNaN(x.Total) /\ IsNaN(y.Total) THEN FALSE
  ELSE IF IsNaN(x.Total) /\ ~IsNaN(y.Total) THEN TRUE
  ELSE IF IsNaN(x.Total) \/ IsNaN(y.Total) THEN TRUE
  ELSE IF FEq(x.Total, y.Total)
    THEN (IF x.Current = y.Current THEN NameGreater(x.Name, y.Name)
          ELSE x.Current < y.Current)
  ELSE FLt(x.Total, y.Total)

\* the Less of sort.Reverse(totals)
ReverseLess(x, y) == Less(y, x)

\* the inner loop of the insertion sort of sort.Sort: the entry at position
\* j moves toward the front while it is less than the entry before it
RECURSIVE SiftDown(_, _)
SiftDown(data, j) ==
  IF j > 1 /\ ReverseLess(data[j], data[j - 1])
    THEN SiftDown([data EXCEPT ![j] = data[j - 1], ![j - 1] = data[j]], j - 1)
    ELSE data

\* One round of the insertion sort.  sort.Sort on fewer than 12 entries is
\* an insertion sort (after a gap-6 pass on 7 to 11 entries in older Go
\* releases); its round i only reads the first i entries, so sorting after
\* the range loop has appended all entries equals sifting each entry down
\* as it is appended.
Appended(totals, entry) == SiftDown(Append(totals, entry), Len(totals) + 1)

\* a list count of 0 replaced by 10
GridListCountTen(listCount) == IF listCount = 0 THEN 10 ELSE listCount

\* Grid: listCount := d.listCount; if listCount == 0 { listCount = 9 }
GridListCount(listCount) == IF listCount = 0 THEN 9 ELSE listCount

\* rows written without any limit
RowsWrittenAll(n, listCount) == n

\* the number of rows the loop "for i, st := range totals" writes before
\* "if i >= listCount-1 { break }" ends it, for n entries
RowsWritten(n, listCount) ==
  IF n = 0 THEN 0
  ELSE IF listCount - 1 <= 0 THEN 1
  ELSE IF listCount < n THEN listCount ELSE n

(* ----------------- the sort entries and rows of each Grid -------------- *)
\* TopDiff.Grid always sorting by total time
TopSortEntryByTime(td, ns) ==
  sortableTotal(ns, Float(td.Totals[ns].Total.Time), td.currentTop.Totals[ns].Total.Time)

\* TopDiff.Grid: the sortableTotal appended for the namespace ns
TopSortEntry(td, ns) ==
  IF td.sortLatency
    THEN sortableTotal(ns,
           FDiv(Float(td.Totals[ns].Total.Time), Float(td.Totals[ns].Total.Count)),
           td.currentTop.Totals[ns].Total.Time)
    ELSE sortableTotal(ns, Float(td.Totals[ns].Total.Time),
                       td.currentTop.Totals[ns].Total.Time)

\* OperationMetricsEntry.TotalDocUnits and OperationMetricsEntryDelta.TotalDocUnits
TotalDocUnits(e) ==
  e.PrimaryMetrics.DocUnitsRead + e.SecondaryMetrics.DocUnitsRead + e.DocUnitsWritten

\* OperationMetricsDiff.Grid always sorting by total doc units
OperationMetricsSortEntryByUnits(od, ns) ==
  sortableTotal(ns, Float(TotalDocUnits(od.Totals[ns])),
                TotalDocUnits(od.currentOperation.Entries[ns]))

\* OperationMetricsDiff.Grid: the sortableTotal appended for the namespace ns
OperationMetricsSortEntry(od, ns) ==
  IF od.sortTotal
    THEN sortableTotal(ns, Float(TotalDocUnits(od.Totals[ns])),
                       TotalDocUnits(od.currentOperation.Entries[ns]))
    ELSE sortableTotal(ns, Float(od.Totals[ns].CpuNanos),
                       od.currentOperation.Entries[ns].CpuNanos)

\* ServerStatusDiff.Grid: the sortableTotal appended for the database ns
ServerStatusSortEntry(ssd, ns) ==
  LET lockStats == ssd.currentServerStatus.Locks[ns]
      currentTotal == lockStats.TimeLockedMicros.ReadLower
                      + lockStats.TimeLockedMicros.WriteLower
  IN sortableTotal(ns, Float(ssd.Totals[ns].Read + ssd.Totals[ns].Write), currentTotal)

\* the cells OperationMetricsDiff.Grid writes for the namespace ns
OperationMetricsDiffRow(od, ns) ==
  LET d == od.Totals[ns]
      elapsedSeconds == ElapsedSeconds(od.elapsed)
      rate(units) == Sprintf(FDiv(Float(units), elapsedSeconds), 10)
  IN [ns     |-> ns,
      total  |-> "",
      units  |-> rate(TotalDocUnits(d)),
      rUnits |-> rate(d.PrimaryMetrics.DocUnitsRead + d.SecondaryMetrics.DocUnitsRead),
      wUnits |-> rate(d.DocUnitsWritten)]

\* the cells ServerStatusDiff.Grid writes for the database ns
ServerStatusDiffRow(ssd, ns) ==
  LET d == ssd.Totals[ns]
  IN [ns |-> ns, total |-> d.Read + d.Write, read |-> d.Read, write |-> d.Write]

\* the sortableTotal a Grid appends for the key ns
SortEntry(d, ns) ==
  IF d.kind = "TopDiff" THEN TopSortEntry(d, ns)
  ELSE IF d.kind = "OperationMetricsDiff" THEN OperationMetricsSortEntry(d, ns)
  ELSE ServerStatusSortEntry(d, ns)

\* the cells a Grid writes for the key ns
GridRow(d, ns) ==
  IF d.kind = "TopDiff" THEN TopDiffRow(d, ns)
  ELSE IF d.kind = "OperationMetricsDiff" THEN OperationMetricsDiffRow(d, ns)
  ELSE ServerStatusDiffRow(d, ns)

\* the data rows a Grid writes from its sorted totals
GridRows(d, totals) ==
  [i \in 1..RowsWritten(Len(totals), GridListCount(d.listCount)) |->
     GridRow(d, totals[i].Name)]

(* ----------------------- the status diff helper ----------------------- *)
\* an int64 result: a number of the model, or one of the two ends of int64
Int64(v) == [kind |-> "int", v |-> v]
MinInt64 == [kind |-> "MinInt64", v |-> 0]
MaxInt64 == [kind |-> "MaxInt64", v |-> 0]

\* int64(x) of a float64 x.  A finite x is truncated toward zero.  For +Inf,
\* -Inf and NaN Go leaves the result to the implementation: amd64 gives the
\* least int64 for all three, arm64 saturates and gives 0 for NaN.
Int64Of(x) ==
  IF x.k = "fin" THEN {Int64(GoDiv(x.n, x.d))}
  ELSE IF x.k = "+Inf" THEN {MinInt64, MaxInt64}
  ELSE IF x.k = "-Inf" THEN {MinInt64}
  ELSE {MinInt64, Int64(0)}

\* time.Duration.Seconds() of a duration in ms
Seconds(elapsed) == Fin(elapsed, 1000)

\* func diff(newVal, oldVal int64, sampleSecs float64) int64: the results
\* the builds of the program can return
status_diff(newVal, oldVal, sampleSecs) ==
  Int64Of(FDiv(Float(newVal - oldVal), sampleSecs))

(* ------------------------ the status readers -------------------------- *)
\* percentageInt64
percentageInt64(value, outOf) ==
  IF value = 0 \/ outOf = 0 THEN Fin(0, 1)
  ELSE FScale(FDiv(Float(value), Float(outOf)), 100)

\* what a reader hands back: the column text, or the run-time panic of an
\* integer division by zero
Text(cells) == [kind |-> "string", cells |-> cells]
DivideByZeroPanic == [kind |-> "panic", cells |-> <<>>]

\* ReadOpLatencyUtilPercent for c.CpuCount >= 0; SampleTime is in ms
ReadOpLatencyUtilPercent(c, newStat, oldStat) ==
  IF newStat.OpLatencies # Nil /\ oldStat.OpLatencies # Nil
    THEN IF c.CpuCount = 0 THEN DivideByZeroPanic
         ELSE LET sampleMicros == (newStat.SampleTime - oldStat.SampleTime) * 1000
                  readMicrosDiff ==
                    GoDiv(newStat.OpLatencies.Reads.Micros
                          - oldStat.OpLatencies.Reads.Micros, c.CpuCount)
                  writeMicrosDiff ==
                    GoDiv(newStat.OpLatencies.Writes.Micros
                          - oldStat.OpLatencies.Writes.Micros, c.CpuCount)
                  commandMicrosDiff ==
                    GoDiv(newStat.OpLatencies.Commands.Micros
                          - oldStat.OpLatencies.Commands.Micros, c.CpuCount)
              IN Text(<<Sprintf(percentageInt64(readMicrosDiff, sampleMicros), 10),
                        Sprintf(percentageInt64(writeMicrosDiff, sampleMicros), 10),
                        Sprintf(percentageInt64(commandMicrosDiff, sampleMicros), 10)>>)
    ELSE Text(<<>>)

LockUsage(namespace, reads, writes) ==
  [Namespace |-> namespace, Reads |-> reads, Writes |-> writes]

\* parseLocks
parseLocks(stat) ==
  [namespace \in DOMAIN stat.Locks |->
     LET lockInfo == stat.Locks[namespace]
     IN LockUsage(namespace,
                  lockInfo.TimeLockedMicros.Read + lockInfo.TimeLockedMicros.ReadLower,
                  lockInfo.TimeLockedMicros.Write + lockInfo.TimeLockedMicros.WriteLower)]

\* a comparison by Reads alone
lockUsagesLessByReads(x, y) == x.Reads < y.Reads

\* lockUsages.Less on the entries x = slice[i] and y = slice[j]
lockUsagesLess(x, y) == x.Reads + x.Writes < y.Reads + y.Writes

\* sort.Sort(lockUsages) on fewer than 12 entries: an insertion sort, whose
\* round i moves the entry at position i toward the front while it is less
\* than the entry before it
RECURSIVE lockUsagesSiftDown(_, _)
lockUsagesSiftDown(data, j) ==
  IF j > 1 /\ lockUsagesLess(data[j], data[j - 1])
    THEN lockUsagesSiftDown([data EXCEPT ![j] = data[j - 1], ![j - 1] = data[j]], j - 1)
    ELSE data
RECURSIVE lockUsagesSort(_, _)
lockUsagesSort(data, i) ==
  IF i > Len(data) THEN data ELSE lockUsagesSort(lockUsagesSiftDown(data, i), i + 1)

\* the orders in which a range loop may visit the keys of a map
RangeOrders(keys) ==
  {order \in [1..Cardinality(keys) -> keys] :
     \A i, j \in DOMAIN order : i # j => order[i] # order[j]}

\* computeLockDiffs: the slices it may return, one for each order in which
\* the range over curLocks visits the namespaces
computeLockDiffs(prevLocks, curLocks) ==
  { LET kept == SelectSeq(order, LAMBDA namespace : namespace \in DOMAIN prevLocks)
        appended ==
          [i \in DOMAIN kept |->
             LockUsage(kept[i],
                       curLocks[kept[i]].Reads - prevLocks[kept[i]].Reads,
                       curLocks[kept[i]].Writes - prevLocks[kept[i]].Writes)]
    IN lockUsagesSort(appended, 2)
    : order \in RangeOrders(DOMAIN curLocks) }

\* the sum of the Writes of the entries of namespace "."
RECURSIVE DotWrites(_)
DotWrites(lockdiffs) ==
  IF lockdiffs = <<>> THEN 0
  ELSE (IF Head(lockdiffs).Namespace = "." THEN Head(lockdiffs).Writes ELSE 0)
       + DotWrites(Tail(lockdiffs))

\* the column of ReadLockedDB: db and percentage, or the empty string
LockedDB(db, percentage) == [empty |-> FALSE, db |-> db, percentage |-> percentage]
NoLockedDB == [empty |-> TRUE, db |-> "", percentage |-> Fin(0, 1)]

\* ReadLockedDB once computeLockDiffs has returned lockdiffs
ReadLockedDBOf(newStat, oldStat, lockdiffs) ==
  IF lockdiffs = <<>>
    THEN IF newStat.GlobalLock # Nil
           THEN LockedDB("", Sprintf(percentageInt64(newStat.GlobalLock.LockTime,
                                                     newStat.GlobalLock.TotalTime), 10))
           ELSE NoLockedDB
    ELSE LET highestLocked  == lockdiffs[Len(lockdiffs)]
             timeDiffMillis == newStat.UptimeMillis - oldStat.UptimeMillis
             lockToReport   == highestLocked.Writes
                               + (IF highestLocked.Namespace # "."
                                    THEN DotWrites(lockdiffs) ELSE 0)
         IN LockedDB(highestLocked.Namespace,
                     Sprintf(percentageInt64(GoDiv(lockToReport, 1000), timeDiffMillis), 10))

\* ReadLockedDB: the slices computeLockDiffs may return and the column
\* that follows from each
ReadLockedDB(newStat, oldStat) ==
  IF ~newStat.IsMongos /\ newStat.Locks # Nil /\ oldStat.Locks # Nil
     /\ ("Global" \notin DOMAIN oldStat.Locks
         \/ oldStat.Locks["Global"].AcquireCount = Nil)
    THEN { [lockdiffs |-> lockdiffs, val |-> ReadLockedDBOf(newStat, oldStat, lockdiffs)] :
             lockdiffs \in computeLockDiffs(parseLocks(oldStat), parseLocks(newStat)) }
    ELSE { [lockdiffs |-> <<>>, val |-> NoLockedDB] }

(* ------------------------------ MongoTop ------------------------------ *)
VARIABLES
  OutputOptions,             \* mt.OutputOptions
  Sleeptime,                 \* mt.Sleeptime, ms
  NumCores,                  \* mt.NumCores
  previousOperationMetrics,  \* mt.previousOperationMetrics
  previousServerStatus,      \* mt.previousServerStatus
  previousTop,               \* mt.previousTop
  hasData,                   \* Run's local hasData
  numPrinted,                \* Run's local numPrinted
  diff,                      \* Run's local diff
  err,                       \* Run's local err
  pc,                        \* position of Run: "loop", "handle", "done"
  result,                    \* what Run returned, "running" before it returns
  now,                       \* the wall clock, ms
  trace,                     \* history: what Run did, in order
  prevFrom,                  \* history: attempt that took the retained sample, 0 if none
  calc                       \* a single call of a Diff or Grid operation

runVars == <<OutputOptions, Sleeptime, NumCores, previousOperationMetrics,
             previousServerStatus, previousTop, hasData, numPrinted, diff, err,
             pc, result, now, trace, prevFrom>>
vars == <<OutputOptions, Sleeptime, NumCores, previousOperationMetrics,
          previousServerStatus, previousTop, hasData, numPrinted, diff, err,
          pc, result, now, trace, prevFrom, calc>>

NoCalc == [op |-> "none", step |-> ""]

Event(ev, n, arg) == [ev |-> ev, n |-> n, arg |-> arg]

RunInit ==
  /\ OutputOptions \in [Locks : BOOLEAN, OperationMetrics : BOOLEAN,
                        RowCount : 0..MaxRowCount, ListCount : ListCounts,
                        SortLatency : BOOLEAN, Json : BOOLEAN]
  /\ Sleeptime \in Sleeptimes
  /\ NumCores \in CoreCounts
  /\ previousOperationMetrics = Nil
  /\ previousServerStatus = Nil
  /\ previousTop = Nil
  /\ hasData = FALSE
  /\ numPrinted = 0
  /\ diff = Nil
  /\ err = NoErr
  /\ pc = "loop"
  /\ result = "running"
  /\ now = 0
  /\ trace = <<>>
  /\ prevFrom = 0

Init == RunInit /\ calc = NoCalc

\* the loop exit test with an off-by-one
RowCountReachedEarly(rowCount, printed) == rowCount > 0 /\ printed >= rowCount

\* Run's loop exit test
RowCountReached(rowCount, printed) == rowCount > 0 /\ printed > rowCount

\* an error is never fatal
NeverFatal(hd) == FALSE

\* every error is fatal
AlwaysFatal(hd) == TRUE

\* Run: a failed sample ends Run when no sample has succeeded yet
FatalOnError(hd) == ~hd

\* the notice logged whenever the output is not JSON
LogConnectedAlways(hd, json) == ~json

\* Run: whether "connected to: ..." is logged in this iteration
LogConnected(hd, json) == ~hd /\ ~json

\* Run returns nil at the top of the loop
RunReturn ==
  /\ pc = "loop"
  /\ RowCountReached(OutputOptions.RowCount, numPrinted)
  /\ pc' = "done"
  /\ result' = NoErr
  /\ trace' = Append(trace, Event("return", numPrinted, NoErr))
  /\ UNCHANGED <<OutputOptions, Sleeptime, NumCores, previousOperationMetrics,
                 previousServerStatus, previousTop, hasData, numPrinted, diff,
                 err, now, prevFrom, calc>>

\* numPrinted++ and the assignment diff, err := mt.runDiff()
Sample(r) ==
  /\ numPrinted' = numPrinted + 1
  /\ diff' = r.outDiff
  /\ err' = r.err
  /\ prevFrom' = IF r.err = NoErr THEN numPrinted + 1
                 ELSE IF r.previous.kind = "nil" THEN 0 ELSE prevFrom
  /\ trace' = Append(trace, Event("attempt", numPrinted + 1,
                 [ok |-> r.err = NoErr,
                  from |-> IF r.outDiff.kind # "nil" THEN prevFrom ELSE 0,
                  time |-> now]))
  /\ pc' = "handle"
  /\ UNCHANGED <<OutputOptions, Sleeptime, NumCores, hasData, result, now, calc>>

CanSample ==
  /\ pc = "loop"
  /\ ~RowCountReached(OutputOptions.RowCount, numPrinted)
  /\ numPrinted < AttemptCap

\* Run samples through runServerStatusDiff
RunServerStatusDiff ==
  /\ CanSample
  /\ OutputOptions.Locks
  /\ \E reply \in RunServerStatusReplies :
       LET r == runServerStatusDiff(previousServerStatus, reply, now,
                                    OutputOptions.ListCount)
       IN /\ previousServerStatus' = r.previous
          /\ Sample(r)
  /\ UNCHANGED <<previousOperationMetrics, previousTop>>

\* Run samples through runOperationMetricsDiff
RunOperationMetricsDiff ==
  /\ CanSample
  /\ ~OutputOptions.Locks /\ OutputOptions.OperationMetrics
  /\ \E reply \in RunOperationMetricsReplies :
       LET r == runOperationMetricsDiff(previousOperationMetrics, reply, now,
                  OutputOptions.ListCount, OutputOptions.SortLatency, NumCores)
       IN /\ previousOperationMetrics' = r.previous
          /\ Sample(r)
  /\ UNCHANGED <<previousServerStatus, previousTop>>

\* Run samples through runTopDiff
RunTopDiff ==
  /\ CanSample
  /\ ~OutputOptions.Locks /\ ~OutputOptions.OperationMetrics
  /\ \E reply \in RunTopReplies :
       LET r == runTopDiff(previousTop, reply, now, OutputOptions.ListCount,
                           OutputOptions.SortLatency, NumCores)
       IN /\ previousTop' = r.previous
          /\ Sample(r)
  /\ UNCHANGED <<previousOperationMetrics, previousServerStatus>>

\* the rest of the iteration: the error branch, the connection notice,
\* hasData, the output and the sleep
RunHandle ==
  /\ pc = "handle"
  /\ IF err # NoErr /\ FatalOnError(hasData)
       THEN /\ pc' = "done"
            /\ result' = err
            /\ trace' = Append(trace, Event("return", numPrinted, err))
            /\ UNCHANGED <<hasData, now>>
       ELSE LET failed  == IF err # NoErr
                             THEN <<Event("errlog", numPrinted, err),
                                    Event("sleep", numPrinted, Sleeptime)>>
                             ELSE <<>>
                notice  == IF LogConnected(hasData, OutputOptions.Json)
                             THEN <<Event("notice", numPrinted, "connected to")>>
                             ELSE <<>>
                printed == IF diff.kind # "nil"
                             THEN <<Event("print", numPrinted,
                                          Printed(diff, OutputOptions.Json))>>
                             ELSE <<>>
            IN /\ trace' = trace \o failed \o notice \o printed
                                 \o <<Event("sleep", numPrinted, Sleeptime)>>
               /\ now' = now + Sleeptime * (Len(failed) \div 2 + 1)
               /\ hasData' = TRUE
               /\ pc' = "loop"
               /\ UNCHANGED result
  /\ UNCHANGED <<OutputOptions, Sleeptime, NumCores, previousOperationMetrics,
                 previousServerStatus, previousTop, numPrinted, diff, err,
                 prevFrom, calc>>

Next ==
  \/ RunReturn
  \/ RunServerStatusDiff
  \/ RunOperationMetricsDiff
  \/ RunTopDiff
  \/ RunHandle

Spec == Init /\ [][Next]_vars

\* Run is one sequential goroutine: every sample attempt returns (the
\* aggregation under a 30 s timeout) and every sleep ends, so a step that
\* can be taken is taken
SpecLive == Spec /\ WF_vars(Next)

(* ------------------- single calls of Diff and Grid -------------------- *)
\* elapsed times between two samples, ms
Elapsed == {0, 500, 1000, 1500, 2000}

TopSample(totals, t, cores) ==
  [kind |-> "Top", numCores |-> cores, time |-> t, Totals |-> totals]
ServerStatusSample(locks, t) ==
  [kind |-> "ServerStatus", time |-> t, Locks |-> locks]
OperationMetricsSample(infos, t, cores) ==
  [kind |-> "OperationMetrics", numCores |-> cores, time |-> t,
   Entries |-> [k \in DOMAIN infos |->
                  OperationMetricsEntry(k, infos[k][1], infos[k][2],
                                        infos[k][3], infos[k][4])]]

\* ten keys, one more than the default list count
BigKeys == {KeyOrder[i] : i \in DOMAIN KeyOrder}

\* samples of ten entities whose counters grow at different rates
BigTopTotals(m) ==
  [k \in BigKeys |->
     NSTopInfo(TopField(3000 * m * KeyIndex(k), 4 * m),
               TopField(1000 * m * KeyIndex(k), m),
               TopField(2000 * m * KeyIndex(k), 3 * m))]
BigLocks(m) ==
  [k \in BigKeys |->
     LockStats(Nil, ReadWriteLockTimes(1000 * m * KeyIndex(k), 2000 * m, 500, 0))]
BigOperationMetricsInfos(m) ==
  [k \in BigKeys |-> <<m * KeyIndex(k), m, 10 * m, 100 - m * KeyIndex(k)>>]

\* lock statistics with nearly all of the locked time in R
LockUpperHeavy == LockStats(Nil, ReadWriteLockTimes(6000, 0, 0, 100))

\* one counter of a status.ServerStatus sample taken at time t
CounterValues == {0, 100, 250}
StatusSample(value, t) == [kind |-> "status", SampleTime |-> t, Value |-> value]

\* elapsed time, list count and sort toggle of the single Top calls
TopOptions ==
  { <<e, 0, FALSE>> : e \in Elapsed } \cup { <<1000, lc, sl>> : lc \in {0, 1, 2}, sl \in BOOLEAN }

\* the arguments of one Diff call: two samples of one shape and the options
CalcInputs ==
  LET in(shape, cur, prev, lc, sl) ==
        [op |-> "input", shape |-> shape, cur |-> cur, prev |-> prev,
         listCount |-> lc, sort |-> sl, out |-> Nil, step |-> "",
         totals |-> <<>>, pending |-> {}, rows |-> <<>>]
  IN  { in("Top", TopSample(c, o[1], 2), TopSample(p, 0, 2), o[2], o[3]) :
          c \in MapsInto(Namespaces, TopInfos), p \in MapsInto(Namespaces, TopInfos),
          o \in TopOptions }
      \cup
      { in("ServerStatus", ServerStatusSample(c, 1000), ServerStatusSample(p, 0), lc, FALSE) :
          c \in MapsInto(Databases, LockInfos), p \in MapsInto(Databases, LockInfos),
          lc \in {0, 2} }
      \cup
      { in("OperationMetrics", OperationMetricsSample(c, 1000, 2),
           OperationMetricsSample(p, 0, 2), o[1], o[2]) :
          c \in MapsInto(Namespaces, OperationMetricsInfos),
          p \in MapsInto(Namespaces, OperationMetricsInfos),
          o \in {<<0, FALSE>>, <<0, TRUE>>, <<2, FALSE>>} }
      \cup
      { in("Top", TopSample(BigTopTotals(2), 1000, 2), TopSample(BigTopTotals(1), 0, 2),
           lc, FALSE) : lc \in {0, 2} }
      \cup
      { in("ServerStatus", ServerStatusSample(BigLocks(2), 1000),
           ServerStatusSample(BigLocks(1), 0), lc, FALSE) : lc \in {0} }
      \cup
      { in("OperationMetrics", OperationMetricsSample(BigOperationMetricsInfos(2), 1000, 2),
           OperationMetricsSample(BigOperationMetricsInfos(1), 0, 2), lc, FALSE) :
          lc \in {0} }
      \cup
      { in("ServerStatus", ServerStatusSample(c, 1000), ServerStatusSample(c, 0), 0, FALSE) :
          c \in MapsInto(Namespaces, LockInfos \cup {LockUpperHeavy}) }
      \cup
      { in("status", StatusSample(n, e), StatusSample(o, 0), 0, FALSE) :
          n \in CounterValues, o \in CounterValues, e \in Elapsed }

\* before Run is called
Idle ==
  /\ OutputOptions = [Locks |-> FALSE, OperationMetrics |-> FALSE, RowCount |-> 0,
                      ListCount |-> 0, SortLatency |-> FALSE, Json |-> FALSE]
  /\ Sleeptime = 1000
  /\ NumCores = 2
  /\ previousOperationMetrics = Nil
  /\ previousServerStatus = Nil
  /\ previousTop = Nil
  /\ hasData = FALSE
  /\ numPrinted = 0
  /\ diff = Nil
  /\ err = NoErr
  /\ pc = "idle"
  /\ result = "running"
  /\ now = 0
  /\ trace = <<>>
  /\ prevFrom = 0

\* a call of Top.Diff
CallTopDiff ==
  /\ calc.op = "input" /\ calc.shape = "Top"
  /\ calc' = [calc EXCEPT !.op = "Top.Diff",
                !.out = Top_Diff(calc.cur, calc.prev, calc.listCount, calc.sort,
                                 calc.cur.time)]
  /\ UNCHANGED runVars

\* a call of ServerStatus.Diff
CallServerStatusDiff ==
  /\ calc.op = "input" /\ calc.shape = "ServerStatus"
  /\ calc' = [calc EXCEPT !.op = "ServerStatus.Diff",
                !.out = ServerStatus_Diff(calc.cur, calc.prev, calc.listCount,
                                          calc.cur.time)]
  /\ UNCHANGED runVars

\* a call of OperationMetrics.Diff
CallOperationMetricsDiff ==
  /\ calc.op = "input" /\ calc.shape = "OperationMetrics"
  /\ calc' = [calc EXCEPT !.op = "OperationMetrics.Diff",
                !.out = OperationMetrics_Diff(calc.cur, calc.prev, calc.listCount,
                                              calc.sort, calc.cur.time)]
  /\ UNCHANGED runVars

\* a call of the status diff helper on one counter of two samples, with
\* sampleSecs := newStat.SampleTime.Sub(oldStat.SampleTime).Seconds()
CallStatusDiff ==
  /\ calc.op = "input" /\ calc.shape = "status"
  /\ \E r \in status_diff(calc.cur.Value, calc.prev.Value,
                          Seconds(calc.cur.SampleTime - calc.prev.SampleTime)) :
       calc' = [calc EXCEPT !.op = "diff", !.out = r]
  /\ UNCHANGED runVars

\* Grid begins: no entry of Totals has been ranged over yet
GridBegun(op) ==
  [calc EXCEPT !.op = op, !.step = "range", !.totals = <<>>,
               !.pending = DOMAIN calc.out.Totals]

\* a call of TopDiff.Grid on the result of Top.Diff
CallTopDiffGrid ==
  /\ calc.op = "Top.Diff"
  /\ calc' = GridBegun("TopDiff.Grid")
  /\ UNCHANGED runVars

\* a call of ServerStatusDiff.Grid on the result of ServerStatus.Diff
CallServerStatusDiffGrid ==
  /\ calc.op = "ServerStatus.Diff"
  /\ calc' = GridBegun("ServerStatusDiff.Grid")
  /\ UNCHANGED runVars

\* a call of OperationMetricsDiff.Grid on the result of OperationMetrics.Diff
CallOperationMetricsDiffGrid ==
  /\ calc.op = "OperationMetrics.Diff"
  /\ calc' = GridBegun("OperationMetricsDiff.Grid")
  /\ UNCHANGED runVars

\* one round of "for ns, diff := range d.Totals": Go ranges over a map in
\* an unspecified order; the entry is appended and sorted into place
GridRange ==
  /\ calc.step = "range"
  /\ \E ns \in calc.pending :
       calc' = [calc EXCEPT !.totals = Appended(calc.totals, SortEntry(calc.out, ns)),
                            !.pending = calc.pending \ {ns}]
  /\ UNCHANGED runVars

\* the loop that writes the rows of the sorted totals
GridWrite ==
  /\ calc.step = "range"
  /\ calc.pending = {}
  /\ calc' = [calc EXCEPT !.step = "written", !.rows = GridRows(calc.out, calc.totals)]
  /\ UNCHANGED runVars

(* ---------------- Diff called twice, one loop round a step -------------- *)
\* the map of a sample that Diff ranges over
EntriesOf(sample) ==
  IF sample.kind = "Top" THEN sample.Totals
  ELSE IF sample.kind = "ServerStatus" THEN sample.Locks
  ELSE sample.Entries

\* the sample with another map in the place of its own
WithEntries(sample, m) ==
  IF sample.kind = "Top" THEN [sample EXCEPT !.Totals = m]
  ELSE IF sample.kind = "ServerStatus" THEN [sample EXCEPT !.Locks = m]
  ELSE [sample EXCEPT !.Entries = m]

\* Diff of the shape of cur
DiffOf(cur, prev, listCount, sort, clock) ==
  IF cur.kind = "Top" THEN Top_Diff(cur, prev, listCount, sort, clock)
  ELSE IF cur.kind = "ServerStatus" THEN ServerStatus_Diff(cur, prev, listCount, clock)
  ELSE OperationMetrics_Diff(cur, prev, listCount, sort, clock)

\* the composite literal "diff := ...Diff{...}": every field set, no totals
DiffLiteral(cur, prev, listCount, sort, clock) ==
  DiffOf(cur, WithEntries(prev, <<>>), listCount, sort, clock)

\* the value assigned to diff.Totals[ns] in the loop body
TotalsEntry(cur, prev, ns) ==
  LET curOne  == [k \in {ns} |-> EntriesOf(cur)[k]]
      prevOne == [k \in {ns} |-> EntriesOf(prev)[k]]
  IN IF cur.kind = "Top" THEN TopTotalsDiff(curOne, prevOne)[ns]
     ELSE IF cur.kind = "ServerStatus" THEN LockTotalsDiff(curOne, prevOne)[ns]
     ELSE OperationMetricsTotalsDiff(curOne, prevOne)[ns]

\* a loop round that also removes the entry it has read from the current map
RangeStepConsuming(c, ns) ==
  IF ns \in DOMAIN EntriesOf(c.cur)
    THEN LET totals  == c.diffv.Totals
             entries == EntriesOf(c.cur)
         IN [c EXCEPT !.pending = c.pending \ {ns},
                      !.cur = WithEntries(c.cur,
                                [k \in DOMAIN entries \ {ns} |-> entries[k]]),
                      !.diffv.Totals =
                         [k \in DOMAIN totals \cup {ns} |->
                            IF k = ns THEN TotalsEntry(c.cur, c.prev, ns)
                            ELSE totals[k]]]
    ELSE [c EXCEPT !.pending = c.pending \ {ns}]

\* one round of "for ns, prevInfo := range prevEntries" for the key ns:
\* if curInfo, ok := curEntries[ns]; ok { diff.Totals[ns] = ... }
RangeStep(c, ns) ==
  IF ns \in DOMAIN EntriesOf(c.cur)
    THEN LET totals == c.diffv.Totals
         IN [c EXCEPT !.pending = c.pending \ {ns},
                      !.diffv.Totals =
                         [k \in DOMAIN totals \cup {ns} |->
                            IF k = ns THEN TotalsEntry(c.cur, c.prev, ns)
                            ELSE totals[k]]]
    ELSE [c EXCEPT !.pending = c.pending \ {ns}]

\* two samples of one shape on which Diff is called twice; given is the
\* pair of samples as they were before the first call
TwiceInputs ==
  LET in(cur, prev) ==
        [op |-> "twice", shape |-> cur.kind, cur |-> cur, prev |-> prev,
         given |-> <<cur, prev>>, listCount |-> 0, sort |-> FALSE, step |-> "",
         diffv |-> Nil, pending |-> {}, outs |-> <<>>, clock |-> cur.time]
  IN  { in(TopSample(c, 1000, 2), TopSample(p, 0, 2)) :
          c \in MapsInto(Namespaces, TopInfos), p \in MapsInto(Namespaces, TopInfos) }
      \cup
      { in(ServerStatusSample(c, 1000), ServerStatusSample(p, 0)) :
          c \in MapsInto(Namespaces, LockInfos), p \in MapsInto(Namespaces, LockInfos) }
      \cup
      { in(OperationMetricsSample(c, 1000, 2), OperationMetricsSample(p, 0, 2)) :
          c \in MapsInto(Namespaces, OperationMetricsInfos),
          p \in MapsInto(Namespaces, OperationMetricsInfos) }

\* Diff is entered, for the first or the second time
DiffEnter ==
  /\ calc.op = "twice"
  /\ calc.step \in {"", "returned"}
  /\ Len(calc.outs) < 2
  /\ calc' = [calc EXCEPT !.step = "loop",
                !.diffv = DiffLiteral(calc.cur, calc.prev, calc.listCount,
                                      calc.sort, calc.clock),
                !.pending = DOMAIN EntriesOf(calc.prev)]
  /\ UNCHANGED runVars

\* one round of Diff's range loop: Go visits the keys in an unspecified order
DiffRange ==
  /\ calc.op = "twice"
  /\ calc.step = "loop"
  /\ \E ns \in calc.pending : calc' = RangeStep(calc, ns)
  /\ UNCHANGED runVars

\* return diff
DiffReturn ==
  /\ calc.op = "twice"
  /\ calc.step = "loop"
  /\ calc.pending = {}
  /\ calc' = [calc EXCEPT !.step = "returned",
                !.outs = Append(calc.outs, calc.diffv),
                !.clock = calc.clock + 1]
  /\ UNCHANGED runVars

(* --------------------- calls of the status readers --------------------- *)
\* cumulative op latencies a server may report
LatencyMicros == {0, 300, 1000}
OpLatencies(reads) ==
  [Reads    |-> [Micros |-> reads, Ops |-> 4],
   Writes   |-> [Micros |-> 2 * reads, Ops |-> 2],
   Commands |-> [Micros |-> 500, Ops |-> 1]]

\* namespaces of the lock maps of the status package
LockNamespaces == {"a", "b", "."}

\* a status.ServerStatus sample taken at time t
StatusStat(t, latencies, locks, mongos) ==
  [kind |-> "status", SampleTime |-> t, UptimeMillis |-> t, OpLatencies |-> latencies,
   Locks |-> locks, GlobalLock |-> Nil, IsMongos |-> mongos]

\* the arguments of one call of a status reader
ReaderInputs ==
  LET in(reader, c, newStat, oldStat) ==
        [op |-> "input", shape |-> reader, c |-> c, cur |-> newStat, prev |-> oldStat,
         step |-> "", out |-> Nil, lockdiffs |-> <<>>]
  IN  { in("OpLatencies", [CpuCount |-> n], StatusStat(e, l1, Nil, FALSE),
           StatusStat(0, l2, Nil, FALSE)) :
          n \in {0, 1, 2}, e \in {0, 1000},
          l1 \in {Nil} \cup {OpLatencies(m) : m \in LatencyMicros},
          l2 \in {Nil} \cup {OpLatencies(m) : m \in LatencyMicros} }
      \cup
      { in("Locks", [CpuCount |-> 1], StatusStat(1000, Nil, c, m), StatusStat(0, Nil, p, m)) :
          c \in MapsInto(LockNamespaces, LockInfos \cup {LockUpperHeavy}) \cup {Nil},
          p \in MapsInto(LockNamespaces, {LockA}) \cup {Nil},
          m \in {FALSE} }
      \cup
      { in("Locks", [CpuCount |-> 1], StatusStat(1000, Nil, c, TRUE), StatusStat(0, Nil, c, TRUE)) :
          c \in MapsInto({"a"}, LockInfos) }

\* a call of ReadOpLatencyUtilPercent
CallReadOpLatencyUtilPercent ==
  /\ calc.op = "input" /\ calc.shape = "OpLatencies"
  /\ calc' = [calc EXCEPT !.op = "ReadOpLatencyUtilPercent",
                !.out = ReadOpLatencyUtilPercent(calc.c, calc.cur, calc.prev)]
  /\ UNCHANGED runVars

\* a call of ReadLockedDB, computeLockDiffs included
CallReadLockedDB ==
  /\ calc.op = "input" /\ calc.shape = "Locks"
  /\ \E r \in ReadLockedDB(calc.cur, calc.prev) :
       calc' = [calc EXCEPT !.op = "ReadLockedDB", !.out = r.val,
                            !.lockdiffs = r.lockdiffs]
  /\ UNCHANGED runVars

\* a single call, or a pair of calls, is about to be made
InitDiff == Idle /\ calc \in CalcInputs \cup TwiceInputs \cup ReaderInputs

NextDiff ==
  \/ CallTopDiff
  \/ CallServerStatusDiff
  \/ CallOperationMetricsDiff
  \/ CallTopDiffGrid
  \/ CallServerStatusDiffGrid
  \/ CallOperationMetricsDiffGrid
  \/ GridRange
  \/ GridWrite
  \/ CallStatusDiff
  \/ DiffEnter
  \/ DiffRange
  \/ DiffReturn
  \/ CallReadOpLatencyUtilPercent
  \/ CallReadLockedDB

SpecDiff == InitDiff /\ [][NextDiff]_vars

(* ------------------------- reading the history ------------------------ *)
\* positions of the events of one kind
At(ev) == {i \in DOMAIN trace : trace[i].ev = ev}
Attempts == At("attempt")
\* positions of the sample attempts that failed after an earlier success
TransientFailures == {i \in Attempts : ~trace[i].arg.ok /\ trace[i].n > 1}
\* the first sample attempt was made and failed
FirstAttemptFailed == trace # <<>> /\ ~trace[1].arg.ok
\* the sample attempt that follows position i, or 0
NextAttempt(i) ==
  IF \E j \in Attempts : j > i
    THEN CHOOSE j \in Attempts : j > i /\ \A k \in Attempts : k > i => j <= k
    ELSE 0
\* the retained previous sample of the shape runDiff selects
ActivePrevious ==
  IF OutputOptions.Locks THEN previousServerStatus
  ELSE IF OutputOptions.OperationMetrics THEN previousOperationMetrics
  ELSE previousTop

(* ------------------------------- claims ------------------------------- *)
\* C1: when the first sample attempt fails, Run returns that error at once:
\* the history holds the attempt and then only the return of the same error;
\* there is no sleep, no second attempt, no output and no connection notice.
C1_FirstFailureIsFatal ==
  FirstAttemptFailed =>
    /\ pc # "loop"
    /\ Attempts = {1}
    /\ At("sleep") = {} /\ At("print") = {} /\ At("notice") = {} /\ At("errlog") = {}
    /\ now = 0
    /\ pc = "done" => /\ result = err /\ result # NoErr
                      /\ trace = <<trace[1], Event("return", 1, err)>>
C1_Witness == FirstAttemptFailed /\ pc = "done" /\ result = "cmdErr"

\* C2: a failed sample attempt after a success leaves no previous sample of
\* the shape, and every diff is between two adjacent sample attempts.
C2_FailureResetsPrevious ==
  /\ (pc = "handle" /\ err # NoErr /\ hasData) => ActivePrevious = Nil
  /\ \A i \in Attempts : trace[i].arg.from # 0 => trace[i].arg.from = trace[i].n - 1

\* C3 as claimed: after a failed sample attempt that follows a success, Run
\* prints nothing for the iteration and does not return before it has made
\* a further sample attempt.
C3_TransientFailureThenAttempt ==
  \A i \in TransientFailures :
    /\ \A j \in At("print") : trace[j].n # trace[i].n
    /\ pc = "done" => NextAttempt(i) # 0

\* C3 amended: after a failed sample attempt that follows a success, Run
\* prints nothing for the iteration and never returns an error; Run returns
\* without a further attempt only when the row count is reached, and the
\* result is then nil.
C3_TransientFailureNonFatal ==
  /\ \A i \in TransientFailures :
       /\ \A j \in At("print") : trace[j].n # trace[i].n
       /\ (pc = "done" /\ NextAttempt(i) = 0) =>
            /\ result = NoErr
            /\ OutputOptions.RowCount > 0
            /\ trace[i].n = OutputOptions.RowCount + 1
  /\ (pc = "done" /\ result # NoErr) => Attempts = {1}
C3_Witness ==
  /\ TransientFailures # {}
  /\ \E i \in TransientFailures : NextAttempt(i) # 0
  /\ \E i \in TransientFailures : NextAttempt(i) = 0 /\ pc = "done"

\* C4: between a failed sample attempt that follows a success and the next
\* sample attempt Run sleeps once, for Sleeptime, as it does between two
\* attempts that succeeded.
C4_OneSleepAfterFailure ==
  \A i \in TransientFailures :
    NextAttempt(i) # 0 =>
      /\ Cardinality({j \in At("sleep") : i < j /\ j < NextAttempt(i)}) = 1
      /\ trace[NextAttempt(i)].arg.time - trace[i].arg.time = Sleeptime

\* C5: with RowCount = n > 0 and every sample attempt succeeding, Run has
\* printed exactly n outputs when it returns, and it returns nil.
C5_PrintsRowCount ==
  (/\ OutputOptions.RowCount > 0
   /\ \A i \in Attempts : trace[i].arg.ok) =>
     /\ Cardinality(At("print")) <= OutputOptions.RowCount
     /\ pc = "done" => /\ Cardinality(At("print")) = OutputOptions.RowCount
                       /\ result = NoErr
C5_Witness ==
  /\ pc = "done" /\ result = NoErr
  /\ OutputOptions.RowCount = MaxRowCount
  /\ \A i \in Attempts : trace[i].arg.ok
  /\ Cardinality(At("print")) = MaxRowCount

\* C6: the connection notice is logged at most once; it is logged exactly
\* when the first sample has succeeded and the output is not JSON, then it
\* directly follows the first sample attempt and precedes every output.
C6_ConnectionNoticeOnce ==
  /\ Cardinality(At("notice")) <= 1
  /\ OutputOptions.Json => At("notice") = {}
  /\ (At("notice") # {}) <=> (hasData /\ ~OutputOptions.Json)
  /\ \A i \in At("notice") :
       /\ i = 2
       /\ trace[1].ev = "attempt" /\ trace[1].arg.ok
       /\ \A j \in At("print") : i < j
C6_Witness ==
  /\ Cardinality(At("notice")) = 1
  /\ At("print") # {}
  /\ TransientFailures # {}
  /\ pc = "done"

(* ------------------------ reading a single call ----------------------- *)
\* the key-to-record map of a sample
SampleMap(x) ==
  IF x.kind = "Top" THEN x.Totals
  ELSE IF x.kind = "ServerStatus" THEN x.Locks
  ELSE x.Entries
\* a Diff has been called
Diffed == calc.op \in {"Top.Diff", "ServerStatus.Diff", "OperationMetrics.Diff"}
CommonKeys == DOMAIN SampleMap(calc.cur) \cap DOMAIN SampleMap(calc.prev)

MemberFields ==
  {"DocBytesRead", "DocUnitsRead", "IndexEntryBytesRead", "IndexEntryUnitsRead",
   "KeysSorted", "SorterSpills", "DocUnitsReturned", "CursorSeeks"}
WrittenFields ==
  {"DocBytesWritten", "DocUnitsWritten", "IndexEntryBytesWritten",
   "IndexEntryUnitsWritten", "CpuNanos"}
TopFields == {"Total", "Read", "Write"}

\* C7: the keys of the Totals of each of the three Diff operations are
\* exactly the keys present in both the current and the previous sample.
C7_InnerJoin ==
  Diffed => DOMAIN calc.out.Totals = CommonKeys
C7_Witness ==
  /\ Diffed
  /\ CommonKeys # {}
  /\ DOMAIN SampleMap(calc.cur) \ CommonKeys # {}
  /\ DOMAIN SampleMap(calc.prev) \ CommonKeys # {}

\* C8: for every common key, each field of an operation-metrics diff entry
\* and each count of a namespace-top diff entry is current minus previous,
\* negative when the counter decreased.
C8_SignedDeltas ==
  /\ calc.op = "OperationMetrics.Diff" =>
       \A ns \in CommonKeys :
         LET c == calc.cur.Entries[ns]
             p == calc.prev.Entries[ns]
             d == calc.out.Totals[ns]
         IN /\ \A f \in MemberFields :
                 /\ d.PrimaryMetrics[f] = c.PrimaryMetrics[f] - p.PrimaryMetrics[f]
                 /\ d.SecondaryMetrics[f] = c.SecondaryMetrics[f] - p.SecondaryMetrics[f]
            /\ \A f \in WrittenFields : d[f] = c[f] - p[f]
  /\ calc.op = "Top.Diff" =>
       \A ns \in CommonKeys : \A f \in TopFields :
         calc.out.Totals[ns][f].Count =
           calc.cur.Totals[ns][f].Count - calc.prev.Totals[ns][f].Count
C8_Witness ==
  /\ calc.op = "Top.Diff"
  /\ \E ns \in CommonKeys :
       /\ calc.cur.Totals[ns].Total.Count < calc.prev.Totals[ns].Total.Count
       /\ calc.out.Totals[ns].Total.Count < 0

\* C9: each time of a Top.Diff entry is (current - previous) / 1000 with the
\* quotient truncated toward zero, for negative differences too; previous
\* 1000 and current 3000 give 2.
C9_MicrosToMillis ==
  calc.op = "Top.Diff" =>
    \A ns \in CommonKeys : \A f \in TopFields :
      LET delta == calc.cur.Totals[ns][f].Time - calc.prev.Totals[ns][f].Time
          ms    == calc.out.Totals[ns][f].Time
      IN /\ Abs(ms) * 1000 <= Abs(delta)
         /\ Abs(delta) < (Abs(ms) + 1) * 1000
         /\ delta >= 0 => ms >= 0
         /\ delta <= 0 => ms <= 0
         /\ (calc.prev.Totals[ns][f].Time = 1000 /\ calc.cur.Totals[ns][f].Time = 3000)
              => ms = 2
C9_Witness ==
  /\ calc.op = "Top.Diff"
  /\ \E ns \in CommonKeys :
       /\ calc.prev.Totals[ns].Total.Time = 1000
       /\ calc.cur.Totals[ns].Total.Time = 3000
       /\ calc.out.Totals[ns].Total.Time = 2
  /\ \E ns \in CommonKeys :
       /\ calc.cur.Totals[ns].Total.Time - calc.prev.Totals[ns].Total.Time = -3500
       /\ calc.out.Totals[ns].Total.Time = -3

\* C10: for every positive elapsed time, the op/s cells of TopDiff.Grid are
\* the count deltas divided by the elapsed time in seconds, whole or not.
C10_OpsPerSecond ==
  (calc.op = "TopDiff.Grid" /\ calc.step = "written" /\ calc.out.elapsed > 0) =>
    \A i \in DOMAIN calc.rows :
      LET d == calc.out.Totals[calc.rows[i].ns]
          rate(count) == Sprintf(FDiv(Float(count), ExactSeconds(calc.out.elapsed)), 10)
      IN /\ calc.rows[i].totalOps = rate(d.Total.Count)
         /\ calc.rows[i].readOps  = rate(d.Read.Count)
         /\ calc.rows[i].writeOps = rate(d.Write.Count)

(* ------------------------ claims about Grid ---------------------------- *)
\* a Grid call has written its rows
Written == calc.step = "written"

\* the sortableTotals a written Grid appended, one for each key of Totals
Entries == {SortEntry(calc.out, ns) : ns \in DOMAIN calc.out.Totals}

\* the sorted totals when the range loop visits the keys in byte order
RECURSIVE RankedFrom(_, _, _)
RankedFrom(d, totals, i) ==
  IF i > Len(KeyOrder) THEN totals
  ELSE RankedFrom(d,
         IF KeyOrder[i] \in DOMAIN d.Totals
           THEN Appended(totals, SortEntry(d, KeyOrder[i]))
           ELSE totals,
         i + 1)

\* C11: Less is asymmetric, total and transitive on the distinct entries of
\* every Grid, NaN totals included, and the sorted order of a set of entries
\* is the same whatever order the entries were appended in.
C11_RankingIsATotalOrder ==
  Written =>
    /\ \A x, y \in Entries : x # y => (Less(x, y) # Less(y, x))
    /\ \A x, y, z \in Entries : (Less(x, y) /\ Less(y, z)) => Less(x, z)
    /\ calc.totals = RankedFrom(calc.out, <<>>, 1)

\* the rows a written Grid rendered are the first of its sorted totals
RowsAreRankedPrefix ==
  /\ Len(calc.rows) <= Len(calc.totals)
  /\ \A i \in DOMAIN calc.rows : calc.rows[i].ns = calc.totals[i].Name

\* the positions of two entries whose totals are numbers, in rank order
RankedPairs ==
  {p \in (DOMAIN calc.totals) \X (DOMAIN calc.totals) :
     /\ p[1] < p[2]
     /\ ~IsNaN(calc.totals[p[1]].Total)
     /\ ~IsNaN(calc.totals[p[2]].Total)}

C13_LargerFirst ==
  Written =>
    /\ RowsAreRankedPrefix
    /\ \A p \in RankedPairs :
         LET x == calc.totals[p[1]]
             y == calc.totals[p[2]]
         IN /\ ~FLt(x.Total, y.Total)
            /\ FEq(x.Total, y.Total) => x.Current >= y.Current
C13_Witness ==
  /\ Written
  /\ Len(calc.rows) = 2
  /\ calc.rows[1].ns = "b"
  /\ FEq(calc.totals[1].Total, calc.totals[2].Total)
  /\ calc.totals[1].Current > calc.totals[2].Current

\* C14 as stated: entries that tie on the primary metric and on the current
\* value are ranked in descending order of key.
C14_TieGreaterKeyFirst ==
  Written =>
    \A p \in RankedPairs :
      LET x == calc.totals[p[1]]
          y == calc.totals[p[2]]
      IN (FEq(x.Total, y.Total) /\ x.Current = y.Current)
           => NameGreater(x.Name, y.Name)

\* C14: entries that tie on the primary metric and on the current value are
\* ranked in ascending order of key: the smaller key is rendered first.
C14_TieSmallerKeyFirst ==
  Written =>
    /\ RowsAreRankedPrefix
    /\ \A p \in RankedPairs :
         LET x == calc.totals[p[1]]
             y == calc.totals[p[2]]
         IN (FEq(x.Total, y.Total) /\ x.Current = y.Current)
              => KeyIndex(x.Name) < KeyIndex(y.Name)
C14_Witness ==
  /\ Written
  /\ calc.shape = "ServerStatus"
  /\ Len(calc.rows) >= 2
  /\ FEq(calc.totals[1].Total, calc.totals[2].Total)
  /\ calc.totals[1].Current = calc.totals[2].Current
  /\ calc.rows[1].ns = "a"
  /\ calc.rows[2].ns = "b"

\* |D|: the number of entries of the diff a Grid was called on
DiffSize == Cardinality(DOMAIN calc.out.Totals)

Min(a, b) == IF a < b THEN a ELSE b

C17_DefaultListCountTen ==
  (Written /\ calc.listCount = 0 /\ DiffSize >= 10) => Len(calc.rows) = 10

\* the ranked totals descend by the metric m of their keys (NaN aside)
RankedBy(m(_)) ==
  \A i, j \in DOMAIN calc.totals :
    LET x == m(calc.totals[i].Name)
        y == m(calc.totals[j].Name)
    IN (i < j /\ ~IsNaN(x) /\ ~IsNaN(y)) => ~FLt(x, y)

\* the metrics of the key ns in the diff a Grid was called on
TotalTimeDelta(ns) == Float(calc.out.Totals[ns].Total.Time)
AverageLatency(ns) ==
  FDiv(Float(calc.out.Totals[ns].Total.Time), Float(calc.out.Totals[ns].Total.Count))
TotalDocUnitsDelta(ns) == Float(TotalDocUnits(calc.out.Totals[ns]))
CpuNanosDelta(ns) == Float(calc.out.Totals[ns].CpuNanos)

C19_RankedByCpuNanos ==
  (Written /\ calc.shape = "OperationMetrics" /\ ~calc.out.sortTotal) =>
    /\ RowsAreRankedPrefix
    /\ RankedBy(CpuNanosDelta)
    /\ \A i, j \in DOMAIN calc.totals :
         LET x == calc.totals[i].Name
             y == calc.totals[j].Name
             cur(ns) == calc.cur.Entries[ns].CpuNanos
         IN i < j =>
              \/ FLt(CpuNanosDelta(y), CpuNanosDelta(x))
              \/ /\ FEq(CpuNanosDelta(x), CpuNanosDelta(y))
                 /\ \/ cur(x) > cur(y)
                    \/ cur(x) = cur(y) /\ KeyIndex(x) < KeyIndex(y)
C19_Witness ==
  /\ Written
  /\ calc.shape = "OperationMetrics"
  /\ ~calc.out.sortTotal
  /\ Len(calc.rows) = 2
  /\ FLt(CpuNanosDelta(calc.rows[2].ns), CpuNanosDelta(calc.rows[1].ns))
  /\ FLt(TotalDocUnitsDelta(calc.rows[1].ns), TotalDocUnitsDelta(calc.rows[2].ns))

\* the rate and ratio cells of the rows of a written Grid whose divisor,
\* the whole seconds elapsed or a count delta, is zero
ZeroDivisorCells ==
  IF ~Written \/ calc.shape \notin {"Top", "OperationMetrics"} THEN {}
  ELSE UNION {
    LET r == calc.rows[i]
        d == calc.out.Totals[r.ns]
    IN IF calc.shape = "Top"
         THEN (IF GoDiv(calc.out.elapsed, 1000) = 0
                 THEN {r.totalOps, r.readOps, r.writeOps} ELSE {})
              \cup (IF calc.out.elapsed = 0
                      THEN {r.totalPct, r.totalPctCore, r.readPct, r.writePct} ELSE {})
              \cup (IF d.Total.Count = 0 THEN {r.totalTimeOp} ELSE {})
              \cup (IF d.Read.Count = 0 THEN {r.readTimeOp} ELSE {})
              \cup (IF d.Write.Count = 0 THEN {r.writeTimeOp} ELSE {})
         ELSE (IF GoDiv(calc.out.elapsed, 1000) = 0
                 THEN {r.units, r.rUnits, r.wUnits} ELSE {})
    : i \in DOMAIN calc.rows }

\* C20: with a zero divisor every rate and ratio cell of a Grid is the text
\* of an infinity or of NaN, and the status diff helper called with
\* sampleSecs = 0 returns the one value 0; neither raises.
C20_ZeroDivisorSentinel ==
  /\ \A c \in ZeroDivisorCells : c \in {PosInf, NegInf, NaN}
  /\ (calc.op = "diff" /\ calc.cur.SampleTime = calc.prev.SampleTime)
       => calc.out = Int64(0)

(* --------------------- claims about the samplers ---------------------- *)
\* Run is between a sample attempt and the handling of its result
Sampling == pc = "handle"

\* every diff was taken against the sample of an attempt that succeeded
DiffsFromSuccesses ==
  \A i \in Attempts :
    trace[i].arg.from # 0 =>
      \E j \in Attempts : trace[j].n = trace[i].arg.from /\ trace[j].arg.ok

\* a serverStatus snapshot with a locks mapping and no acquireCount in it
Usable(ss) ==
  /\ ss.Locks # Nil
  /\ \A ns \in DOMAIN ss.Locks : ss.Locks[ns].AcquireCount = Nil

\* C21: in lock mode a snapshot without a locks mapping, or with an entry
\* that carries acquireCount, is neither the current sample of a returned
\* diff nor the retained previous sample; the attempt that rejects it
\* returns an error and no diff and leaves the older previous sample.
C21_UnsupportedRejected ==
  OutputOptions.Locks =>
    /\ previousServerStatus # Nil => Usable(previousServerStatus)
    /\ diff # Nil => Usable(diff.currentServerStatus)
    /\ DiffsFromSuccesses
    /\ (Sampling /\ err \in {"noLocks", "acquireCount"}) =>
         /\ diff = Nil
         /\ prevFrom # numPrinted
         /\ previousServerStatus # Nil => previousServerStatus.time < now
C21_Witness ==
  /\ OutputOptions.Locks
  /\ Sampling
  /\ err = "acquireCount"
  /\ diff = Nil
  /\ previousServerStatus # Nil
  /\ previousServerStatus.time < now

\* the Entries of the snapshots whose cursor loop ran to its end
CompleteEntries ==
  { DecodeEntries(reply.records, <<>>).Entries :
      reply \in { r \in RunOperationMetricsReplies :
                    /\ r.kind = "ok"
                    /\ ~r.cursorErr
                    /\ \A i \in DOMAIN r.records : r.records[i].ok } }

\* C22: in operation-metrics mode an attempt whose cursor loop meets a
\* record that does not decode, or ends with a read error, returns an error
\* and no diff; the partly filled snapshot is neither retained as the
\* previous sample nor part of any diff.
C22_NoPartialResult ==
  (~OutputOptions.Locks /\ OutputOptions.OperationMetrics) =>
    /\ previousOperationMetrics # Nil =>
         previousOperationMetrics.Entries \in CompleteEntries
    /\ diff # Nil => diff.currentOperation.Entries \in CompleteEntries
    /\ DiffsFromSuccesses
    /\ (Sampling /\ err \in {"decode", "cursor"}) =>
         /\ diff = Nil
         /\ prevFrom # numPrinted
         /\ previousOperationMetrics # Nil => previousOperationMetrics.time < now
C22_Witness ==
  /\ ~OutputOptions.Locks /\ OutputOptions.OperationMetrics
  /\ Sampling
  /\ err = "decode"
  /\ diff = Nil
  /\ previousOperationMetrics # Nil
  /\ previousOperationMetrics.Entries \in CompleteEntries

\* the positions of the outputs Run has printed
Prints == At("print")

\* C23: in JSON mode every output Run prints for the operation-metrics
\* shape is the document {"unsupported": true}, whatever the diff holds.
C23_JsonUnsupportedSentinel ==
  (~OutputOptions.Locks /\ OutputOptions.OperationMetrics /\ OutputOptions.Json) =>
    \A i \in Prints :
      trace[i].arg = [format |-> "json", doc |-> [unsupported |-> TRUE]]
C23_Witness ==
  /\ ~OutputOptions.Locks /\ OutputOptions.OperationMetrics /\ OutputOptions.Json
  /\ Cardinality(Prints) = 2
  /\ diff # Nil
  /\ DOMAIN diff.Totals # {}
  /\ trace[CHOOSE i \in Prints : TRUE].arg.doc = [unsupported |-> TRUE]

(* ----------------------- claims about two calls ------------------------ *)
\* a diff with its creation time blanked
SansTime(d) == [d EXCEPT !.Time = 0]

\* C24: while and after Diff is called twice on the same two samples and
\* options, the samples are as they were given; each call returns, apart
\* from Time, the diff of the given samples, so the two results agree in
\* every field but Time, in whatever order the loops visit the keys.
C24_DiffDeterministicAndPure ==
  calc.op = "twice" =>
    /\ calc.cur = calc.given[1]
    /\ calc.prev = calc.given[2]
    /\ \A i \in DOMAIN calc.outs :
         SansTime(calc.outs[i]) =
           SansTime(DiffOf(calc.given[1], calc.given[2], calc.listCount, calc.sort, 0))
    /\ Len(calc.outs) = 2 => SansTime(calc.outs[1]) = SansTime(calc.outs[2])
C24_Witness ==
  /\ calc.op = "twice"
  /\ calc.shape = "Top"
  /\ Len(calc.outs) = 2
  /\ calc.outs[1].Time # calc.outs[2].Time
  /\ Cardinality(DOMAIN calc.outs[2].Totals) = 2
  /\ calc.outs[1].elapsed = 1000

(* ------------------- claims about the retained sample ------------------ *)
\* the current sample a diff points to
CurrentOf(d) ==
  IF d.kind = "TopDiff" THEN d.currentTop
  ELSE IF d.kind = "ServerStatusDiff" THEN d.currentServerStatus
  ELSE d.currentOperation

\* the previous samples of the shapes runDiff does not select
IdlePrevious ==
  IF OutputOptions.Locks THEN <<previousOperationMetrics, previousTop>>
  ELSE IF OutputOptions.OperationMetrics THEN <<previousServerStatus, previousTop>>
  ELSE <<previousServerStatus, previousOperationMetrics>>

\* a step of Run that makes a sample attempt
SampleStep == pc = "loop" /\ pc' = "handle"

\* the sample attempts that succeeded with no success before them
FirstSuccesses ==
  {i \in Attempts : trace[i].arg.ok /\ \A j \in Attempts : j < i => ~trace[j].arg.ok}

\* what a sample attempt does to the retained sample and when it yields a diff
RetainsLatest ==
  SampleStep =>
    /\ (diff' # Nil) <=> (err' = NoErr /\ ActivePrevious # Nil)
    /\ err' = NoErr =>
         /\ ActivePrevious' # Nil
         /\ ActivePrevious'.time = now
         /\ prevFrom' = numPrinted'
         /\ diff' # Nil => CurrentOf(diff') = ActivePrevious'

\* C25: a successful sample attempt leaves exactly the snapshot it took as
\* the one retained sample of the active shape; an attempt yields a diff if
\* and only if it succeeds and a sample was retained when it began; nothing
\* is printed for the first successful attempt.
C25_OnePreviousSample ==
  /\ [](/\ \A i \in DOMAIN IdlePrevious : IdlePrevious[i] = Nil
        /\ \A i \in FirstSuccesses : \A j \in Prints : trace[j].n # trace[i].n)
  /\ [][RetainsLatest]_vars
C25_Witness ==
  /\ Sampling
  /\ err = NoErr
  /\ diff # Nil
  /\ numPrinted = 3
  /\ prevFrom = 3
  /\ ActivePrevious.time = now
  /\ CurrentOf(diff) = ActivePrevious
  /\ \E i \in Attempts : trace[i].n = 2 /\ trace[i].arg.ok

(* ---------------------- claims about termination ----------------------- *)
\* the first sample attempt was made and succeeded
FirstAttemptSucceeded == trace # <<>> /\ trace[1].arg.ok

\* C26: with RowCount = n > 0 and the first sample attempt succeeding, Run
\* never makes more than n + 1 sample attempts and prints at most n outputs,
\* fewer than n once an attempt has failed; when it returns it has made
\* exactly n + 1 attempts and returns nil; and it does return.
C26_TerminatesAfterRowCount ==
  /\ []((OutputOptions.RowCount > 0 /\ FirstAttemptSucceeded) =>
          /\ Cardinality(Attempts) <= OutputOptions.RowCount + 1
          /\ Cardinality(Prints) <= OutputOptions.RowCount
          /\ TransientFailures # {} => Cardinality(Prints) < OutputOptions.RowCount
          /\ pc = "done" => /\ result = NoErr
                            /\ Cardinality(Attempts) = OutputOptions.RowCount + 1)
  /\ (OutputOptions.RowCount > 0 /\ FirstAttemptSucceeded) ~> (pc = "done")
C26_Witness ==
  /\ OutputOptions.RowCount = 2
  /\ FirstAttemptSucceeded
  /\ pc = "done"
  /\ result = NoErr
  /\ Cardinality(Attempts) = 3
  /\ TransientFailures # {}
  /\ Cardinality(Prints) = 1

(* ------------------------ claims about lock usage ---------------------- *)
\* timeLockedMicros of the database ns in the two samples of a single call
CurLocked(ns) == calc.cur.Locks[ns].TimeLockedMicros
PrevLocked(ns) == calc.prev.Locks[ns].TimeLockedMicros

\* q is d divided by 1000 with the fraction dropped
IsQuotientBy1000(q, d) ==
  /\ Abs(q) * 1000 <= Abs(d)
  /\ Abs(d) < (Abs(q) + 1) * 1000
  /\ d >= 0 => q >= 0
  /\ d <= 0 => q <= 0

\* C27: ServerStatus.Diff has an entry for exactly the databases of both
\* samples; its Read is (cur.R + cur.r) - (prev.R + prev.r) divided by 1000
\* and its Write is (cur.W + cur.w) - (prev.W + prev.w) divided by 1000,
\* fractions dropped.
C27_LockDeltasInMillis ==
  calc.op = "ServerStatus.Diff" =>
    /\ DOMAIN calc.out.Totals = DOMAIN calc.cur.Locks \cap DOMAIN calc.prev.Locks
    /\ \A ns \in DOMAIN calc.out.Totals :
         /\ IsQuotientBy1000(calc.out.Totals[ns].Read,
              (CurLocked(ns).Read + CurLocked(ns).ReadLower)
              - (PrevLocked(ns).Read + PrevLocked(ns).ReadLower))
         /\ IsQuotientBy1000(calc.out.Totals[ns].Write,
              (CurLocked(ns).Write + CurLocked(ns).WriteLower)
              - (PrevLocked(ns).Write + PrevLocked(ns).WriteLower))
C27_Witness ==
  /\ calc.op = "ServerStatus.Diff"
  /\ \E ns \in DOMAIN calc.out.Totals :
       /\ CurLocked(ns).Read - PrevLocked(ns).Read = 3000
       /\ CurLocked(ns).ReadLower - PrevLocked(ns).ReadLower = 200
       /\ calc.out.Totals[ns].Read = 3
       /\ calc.out.Totals[ns].Write = 2
  /\ \E ns \in DOMAIN calc.out.Totals :
       /\ calc.out.Totals[ns].Read = -3
       /\ calc.out.Totals[ns].Write = -2

\* R + r + W + w of timeLockedMicros of the database ns in the current sample
FullLocked(ns) ==
  CurLocked(ns).Read + CurLocked(ns).ReadLower
  + CurLocked(ns).Write + CurLocked(ns).WriteLower

\* C28: in ServerStatusDiff.Grid the tie-break value of an entry is R + r +
\* W + w of the current sample, so of two databases with equal delta totals
\* the one with the larger full current locked time is ranked first.
C28_TieBreakFullLockedTime ==
  (Written /\ calc.shape = "ServerStatus") =>
    /\ \A i \in DOMAIN calc.totals :
         calc.totals[i].Current = FullLocked(calc.totals[i].Name)
    /\ \A p \in RankedPairs :
         FEq(calc.totals[p[1]].Total, calc.totals[p[2]].Total) =>
           FullLocked(calc.totals[p[1]].Name) >= FullLocked(calc.totals[p[2]].Name)

(* -------------------- claims about the status readers ------------------ *)
\* C29: for CpuCount >= 0, CpuCount = 0 included, and two samples that both
\* carry op latencies, zero elapsed time included, ReadOpLatencyUtilPercent
\* returns a string of three percentages and does not panic.
C29_UtilPercentNeverRaises ==
  (/\ calc.op = "ReadOpLatencyUtilPercent"
   /\ calc.c.CpuCount >= 0
   /\ calc.cur.OpLatencies # Nil /\ calc.prev.OpLatencies # Nil) =>
     /\ calc.out.kind = "string"
     /\ Len(calc.out.cells) = 3

\* Reads + Writes of a LockUsage
LockSum(u) == u.Reads + u.Writes

\* C30: computeLockDiffs returns one entry for each namespace of both lock
\* maps and none for the others, with Reads and Writes the current minus
\* the previous sums, in non-decreasing order of Reads + Writes; ReadLockedDB
\* reports the namespace of the last entry, whose Reads + Writes is maximal.
C30_LockDiffsSortedAscending ==
  (/\ calc.op = "ReadLockedDB"
   /\ ~calc.cur.IsMongos /\ calc.cur.Locks # Nil /\ calc.prev.Locks # Nil) =>
     LET ld   == calc.lockdiffs
         both == DOMAIN calc.cur.Locks \cap DOMAIN calc.prev.Locks
         cur(ns)  == calc.cur.Locks[ns].TimeLockedMicros
         prev(ns) == calc.prev.Locks[ns].TimeLockedMicros
     IN /\ Len(ld) = Cardinality(both)
        /\ {ld[i].Namespace : i \in DOMAIN ld} = both
        /\ \A i \in DOMAIN ld :
             /\ ld[i].Reads = (cur(ld[i].Namespace).Read + cur(ld[i].Namespace).ReadLower)
                              - (prev(ld[i].Namespace).Read + prev(ld[i].Namespace).ReadLower)
             /\ ld[i].Writes = (cur(ld[i].Namespace).Write + cur(ld[i].Namespace).WriteLower)
                               - (prev(ld[i].Namespace).Write + prev(ld[i].Namespace).WriteLower)
        /\ \A i, j \in DOMAIN ld : i < j => LockSum(ld[i]) <= LockSum(ld[j])
        /\ ld # <<>> =>
             /\ ~calc.out.empty
             /\ calc.out.db = ld[Len(ld)].Namespace
             /\ \A i \in DOMAIN ld : LockSum(ld[i]) <= LockSum(ld[Len(ld)])
C30_Witness ==
  /\ calc.op = "ReadLockedDB"
  /\ Len(calc.lockdiffs) = 2
  /\ Cardinality(DOMAIN calc.cur.Locks) = 3
  /\ LockSum(calc.lockdiffs[1]) < LockSum(calc.lockdiffs[2])
  /\ calc.lockdiffs[1].Reads > calc.lockdiffs[2].Reads
  /\ calc.out.db = "a"

====
